---- MODULE Spec2Model ----
(***************************************************************************)
(* A model of split_multiline_images.py: the scan of the ground-truth      *)
(* directory for multi-line annotation files, the splitting of each        *)
(* multi-line record into per-line crops and annotation files, the move of *)
(* the originals to the backup directory, and the summary.                 *)
(*                                                                         *)
(* File names and file contents are strings, and the string operations of  *)
(* the script (strip, str.replace, the 03d format, the suffix tests of     *)
(* glob and Path.stem) are computed character by character.                *)
(***************************************************************************)
EXTENDS Integers, Sequences, FiniteSets, TLC

VARIABLES
    dir_exists,        \* GROUND_TRUTH_DIR.exists()
    gt_txt,            \* text files of GROUND_TRUTH_DIR: file name -> content
    gt_img,            \* image files of GROUND_TRUTH_DIR: file name -> image
    backup_exists,     \* the directory multiline_originals exists
    backup_txt,        \* text files of multiline_originals
    backup_img,        \* image files of multiline_originals
    pc,                \* position of main()
    pending,           \* entries the glob of the scan loop has not yielded yet
    multiline_files,   \* list of <<base_name, lines>>
    total_files,
    total_split,
    idx,               \* position of the split loop in multiline_files (1-based)
    img_file,          \* the image file found for the current record, or NoFile
    img,               \* the loaded image
    line_num,          \* position of the line loop (1-based)
    errors,            \* number of err(...) reports
    announced,         \* the number printed by "Successfully split ..."
    single_line_count, \* the number printed by "Total single-line ..."
    orig_txt,          \* gt_txt as it was before the run
    orig_img,          \* gt_img as it was before the run
    prior_txt,         \* backup_txt as it was before the run
    prior_img,         \* backup_img as it was before the run
    src_file,          \* per record: the annotation file it was scanned from
    outcome,           \* per record: "pending", "skipped", "failed" or "split"
    nwritten,          \* per record: number of output pairs its processing wrote
    movedBy,           \* per record: the files its processing moved to backup
    attempted,         \* the records the split loop has started, in order
    bH,                \* band geometry: image height
    bN,                \* band geometry: line count
    bands              \* band geometry: the <<y_start, y_end>> computed so far

fsvars   == <<dir_exists, gt_txt, gt_img, backup_exists, backup_txt, backup_img>>
progvars == <<pc, pending, multiline_files, total_files, total_split, idx,
              img_file, img, line_num, errors, announced, single_line_count>>
histvars == <<orig_txt, orig_img, prior_txt, prior_img, src_file, outcome,
              nwritten, movedBy, attempted>>
bandvars == <<bH, bN, bands>>
vars     == <<fsvars, progvars, histvars, bandvars>>

----------------------------------------------------------------------------
(* Bounds *)

MaxFiles  == 2   \* annotation files, and image files, in the directory before the run
MaxH      == 12  \* band geometry: largest image height
MaxN      == 5   \* band geometry: largest line count

MAX_LINES == 1

----------------------------------------------------------------------------
(* Strings *)

RECURSIVE LStrip(_)
LStrip(s) ==
    IF Len(s) > 0 /\ SubSeq(s, 1, 1) \in {" ", "\n", "\t", "\r"}
    THEN LStrip(SubSeq(s, 2, Len(s)))
    ELSE s

RECURSIVE RStrip(_)
RStrip(s) ==
    IF Len(s) > 0 /\ SubSeq(s, Len(s), Len(s)) \in {" ", "\n", "\t", "\r"}
    THEN RStrip(SubSeq(s, 1, Len(s) - 1))
    ELSE s

\* str.strip()
Strip(s) == RStrip(LStrip(s))

StartsWith(s, p) == Len(s) >= Len(p) /\ SubSeq(s, 1, Len(p)) = p

EndsWith(s, p) == Len(s) >= Len(p) /\ SubSeq(s, Len(s) - Len(p) + 1, Len(s)) = p

\* str.replace(old, new): every non-overlapping occurrence, left to right
RECURSIVE Replace(_, _, _)
Replace(s, old, new) ==
    IF Len(s) = 0 THEN s
    ELSE IF StartsWith(s, old)
         THEN new \o Replace(SubSeq(s, Len(old) + 1, Len(s)), old, new)
         ELSE SubSeq(s, 1, 1) \o Replace(SubSeq(s, 2, Len(s)), old, new)

\* iteration over a text file: the lines, each with its line terminator
RECURSIVE FileLines(_)
FileLines(s) ==
    IF Len(s) = 0 THEN << >>
    ELSE LET k == CHOOSE i \in 1..Len(s) :
                     /\ SubSeq(s, i, i) = "\n" \/ i = Len(s)
                     /\ \A j \in 1..(i - 1) : SubSeq(s, j, j) # "\n"
         IN  <<SubSeq(s, 1, k)>> \o FileLines(SubSeq(s, k + 1, Len(s)))

RECURSIVE Digits(_)
Digits(n) ==
    LET d == <<"0", "1", "2", "3", "4", "5", "6", "7", "8", "9">>
    IN  IF n < 10 THEN d[n + 1] ELSE Digits(n \div 10) \o d[(n % 10) + 1]

RECURSIVE ZeroPad(_, _)
ZeroPad(s, w) == IF Len(s) >= w THEN s ELSE ZeroPad("0" \o s, w)

\* f"{line_num:03d}"
Format03d(n) == ZeroPad(Digits(n), 3)

\* the byte sequence that is not valid UTF-8 is written "?"
Decodable(s) == \A i \in 1..Len(s) : SubSeq(s, i, i) # "?"

----------------------------------------------------------------------------
(* Files and images *)

Empty == [n \in {} |-> ""]

Put(m, k, v) == [n \in (DOMAIN m) \cup {k} |-> IF n = k THEN v ELSE m[n]]

Del(m, k) == [n \in (DOMAIN m) \ {k} |-> m[n]]

NoFile == ""

\* an image is a range of pixel rows of an image that was in the directory
\* (or the backup) before the run
Height(im) == im.bot - im.top

\* img.crop((0, y_start, img_width, y_end))
Crop(im, y_start, y_end) ==
    [id |-> im.id, top |-> im.top + y_start, bot |-> im.top + y_end]

\* Path.stem: the name without its last suffix
Stem(f) ==
    LET dots == {i \in 2..Len(f) : SubSeq(f, i, i) = "."}
    IN  IF dots = {} THEN f
        ELSE SubSeq(f, 1, (CHOOSE i \in dots : \A j \in dots : j <= i) - 1)

\* GROUND_TRUTH_DIR.glob("*.gt.txt")
GlobGt(dir) == {f \in DOMAIN dir : EndsWith(f, ".gt.txt")}

IsText(l) == Strip(l) # ""

\* [line.strip() for line in f if line.strip()]
ReadLines(content) ==
    LET kept == SelectSeq(FileLines(content), IsText)
    IN  [i \in 1..Len(kept) |-> Strip(kept[i])]

base_name(f) == Replace(Stem(f), ".gt", "")

Extensions == <<".png", ".jpg", ".jpeg", ".tif", ".tiff", ".PNG", ".JPG", ".JPEG">>

\* the first candidate that exists, or NoFile
FindImage(base, dir) ==
    LET hits == {e \in 1..Len(Extensions) : (base \o Extensions[e]) \in DOMAIN dir}
    IN  IF hits = {} THEN NoFile
        ELSE base \o Extensions[CHOOSE e \in hits : \A o \in hits : e <= o]

GtFile(base) == base \o ".gt.txt"

LineHeight(img_height, line_count) == img_height \div line_count

YStart(n, line_height) == (n - 1) * line_height

YEndEqualBands(n, line_height, line_count, img_height) == n * line_height

YEnd(n, line_height, line_count, img_height) ==
    IF n < line_count THEN n * line_height ELSE img_height

NewBase(base, n) == base \o "_line" \o Format03d(n)

NewImg(base, n) == NewBase(base, n) \o ".png"

NewGt(base, n) == NewBase(base, n) \o ".gt.txt"

\* cropped.save(new_img): the encoder refuses an image without pixel rows
CanSave(im) == Height(im) > 0

GtContentNoNewline(line_text) == line_text

\* f.write(line_text + '\n')
GtContent(line_text) == line_text \o "\n"

----------------------------------------------------------------------------
(* The state before the run *)

AnnNames == {"a.gt.txt", "a_line001.gt.txt", "a.gt.gt.txt"}

Contents == {"x\n", " p\n\nq", "x \ny\nz\n", "?"}

ImgNames == {"a.png", "a.jpg", "a_line001.png"}

Heights == {1, 3, 5}

OldImage == [id |-> "old", top |-> 0, bot |-> 1]

\* what an earlier run may have left in multiline_originals
PriorBackups ==
    { [exists |-> FALSE, txt |-> Empty, img |-> Empty],
      [exists |-> TRUE,  txt |-> Empty, img |-> Empty],
      [exists |-> TRUE,  txt |-> Put(Empty, "a.gt.txt", "old\n"),
                         img |-> Put(Empty, "a.png", OldImage)] }

InitProgram ==
    /\ pc = "start"
    /\ pending = {}
    /\ multiline_files = << >>
    /\ total_files = 0
    /\ total_split = 0
    /\ idx = 0
    /\ img_file = NoFile
    /\ img = OldImage
    /\ line_num = 0
    /\ errors = 0
    /\ announced = -1
    /\ single_line_count = -1
    /\ src_file = << >>
    /\ outcome = << >>
    /\ nwritten = << >>
    /\ movedBy = << >>
    /\ attempted = << >>

InitFiles ==
    \E d \in BOOLEAN :
    \E names \in SUBSET AnnNames :
    \E inames \in SUBSET ImgNames :
    \E prior \in PriorBackups :
        /\ Cardinality(names) <= MaxFiles
        /\ Cardinality(inames) <= MaxFiles
        /\ ~d => (names = {} /\ inames = {} /\ ~prior.exists)
        /\ \E t \in [names -> Contents] :
           \E hs \in [inames -> Heights] :
               /\ dir_exists = d
               /\ gt_txt = t
               /\ gt_img = [n \in inames |-> [id |-> n, top |-> 0, bot |-> hs[n]]]
               /\ backup_exists = prior.exists
               /\ backup_txt = prior.txt
               /\ backup_img = prior.img
               /\ orig_txt = t
               /\ orig_img = [n \in inames |-> [id |-> n, top |-> 0, bot |-> hs[n]]]
               /\ prior_txt = prior.txt
               /\ prior_img = prior.img

Init ==
    /\ InitFiles
    /\ InitProgram
    /\ bH = 0
    /\ bN = 2
    /\ bands = << >>

----------------------------------------------------------------------------
(* main() *)

Record     == multiline_files[idx]
lines      == Record[2]
line_count == Len(lines)
img_height == Height(img)
line_height == LineHeight(img_height, line_count)

Break(i) == Len(multiline_files) + 1

\* "continue" of the split loop: on to the next record
Continue(i) == i + 1

ExceptPcUncaught == "uncaught"

\* "except Exception as e": the handler ends with the next record
ExceptPc == "find"

AfterLineFirstOnly(n, count) == "move_img"

\* the end of the body of the line loop: the next line, or past the loop
AfterLine(n, count) == IF n < count THEN "crop" ELSE "move_img"

SetAt(s, i, v) == [s EXCEPT ![i] = v]

\* GROUND_TRUTH_DIR.exists(), and the start of the glob
CheckDir ==
    /\ pc = "start"
    /\ IF dir_exists
       THEN /\ pc' = "scan"
            /\ pending' = GlobGt(gt_txt)
            /\ errors' = errors
       ELSE /\ pc' = "exit1"
            /\ pending' = pending
            /\ errors' = errors + 1
    /\ UNCHANGED <<fsvars, histvars, bandvars, multiline_files, total_files,
                   total_split, idx, img_file, img, line_num, announced,
                   single_line_count>>

\* one iteration of the scan loop, on the entry f the glob yields
ScanFile(f) ==
    /\ pc = "scan"
    /\ f \in pending
    /\ pending' = pending \ {f}
    /\ total_files' = total_files + 1
    /\ IF ~Decodable(gt_txt[f])
       THEN \* UnicodeDecodeError: nothing in main() catches it
            /\ pc' = "uncaught"
            /\ UNCHANGED <<multiline_files, src_file, outcome, nwritten, movedBy>>
       ELSE /\ pc' = pc
            /\ IF Len(ReadLines(gt_txt[f])) > MAX_LINES
               THEN /\ multiline_files' =
                         Append(multiline_files, <<base_name(f), ReadLines(gt_txt[f])>>)
                    /\ src_file' = Append(src_file, f)
                    /\ outcome' = Append(outcome, "pending")
                    /\ nwritten' = Append(nwritten, 0)
                    /\ movedBy' = Append(movedBy, {})
               ELSE UNCHANGED <<multiline_files, src_file, outcome, nwritten, movedBy>>
    /\ UNCHANGED <<fsvars, bandvars, total_split, idx, img_file, img, line_num,
                   errors, announced, single_line_count, orig_txt, orig_img,
                   prior_txt, prior_img, attempted>>

\* the end of the scan: return when nothing is multi-line, else create the
\* backup directory and enter the split loop
EndScan ==
    /\ pc = "scan"
    /\ pending = {}
    /\ IF multiline_files = << >>
       THEN /\ pc' = "all_single"
            /\ UNCHANGED <<backup_exists, total_split, idx>>
       ELSE /\ pc' = "find"
            /\ backup_exists' = TRUE
            /\ total_split' = 0
            /\ idx' = 1
    /\ UNCHANGED <<dir_exists, gt_txt, gt_img, backup_txt, backup_img, histvars,
                   bandvars, pending, multiline_files, total_files, img_file, img,
                   line_num, errors, announced, single_line_count>>

\* the head of the split loop for one record: find its image file
Locate ==
    /\ pc = "find"
    /\ idx <= Len(multiline_files)
    /\ attempted' = Append(attempted, idx)
    /\ img_file' = FindImage(Record[1], gt_img)
    /\ IF FindImage(Record[1], gt_img) = NoFile
       THEN /\ errors' = errors + 1
            /\ outcome' = SetAt(outcome, idx, "skipped")
            /\ idx' = Continue(idx)
            /\ pc' = "find"
       ELSE /\ pc' = "open"
            /\ UNCHANGED <<errors, outcome, idx>>
    /\ UNCHANGED <<fsvars, bandvars, pending, multiline_files, total_files,
                   total_split, img, line_num, announced, single_line_count,
                   orig_txt, orig_img, prior_txt, prior_img, src_file, nwritten,
                   movedBy>>

\* an exception inside the try block of the current record
Raise ==
    /\ errors' = errors + 1
    /\ outcome' = SetAt(outcome, idx, "failed")
    /\ IF ExceptPc = "find" THEN idx' = idx + 1 ELSE idx' = idx
    /\ pc' = ExceptPc
    /\ UNCHANGED <<fsvars, bandvars, pending, multiline_files, total_files,
                   total_split, img_file, img, line_num, announced,
                   single_line_count, orig_txt, orig_img, prior_txt, prior_img,
                   src_file, nwritten, movedBy, attempted>>

\* Image.open(img_file), img.size
OpenImage ==
    /\ pc = "open"
    /\ \/ /\ img' = gt_img[img_file]
          /\ line_num' = 1
          /\ pc' = "crop"
          /\ UNCHANGED <<fsvars, histvars, bandvars, pending, multiline_files,
                         total_files, total_split, idx, img_file, errors,
                         announced, single_line_count>>
       \/ Raise

\* the first half of the body of the line loop: crop and save the band
CropSave ==
    /\ pc = "crop"
    /\ \/ /\ IF lines[line_num] = ""
             THEN /\ line_num' = line_num + 1
                  /\ pc' = AfterLine(line_num, line_count)
                  /\ gt_img' = gt_img
             ELSE /\ CanSave(Crop(img, YStart(line_num, line_height),
                                   YEnd(line_num, line_height, line_count,
                                        img_height)))
                  /\ gt_img' = Put(gt_img, NewImg(Record[1], line_num),
                                   Crop(img, YStart(line_num, line_height),
                                        YEnd(line_num, line_height, line_count,
                                             img_height)))
                  /\ pc' = "write"
                  /\ line_num' = line_num
          /\ UNCHANGED <<dir_exists, gt_txt, backup_exists, backup_txt, backup_img,
                         histvars, bandvars, pending, multiline_files, total_files,
                         total_split, idx, img_file, img, errors, announced,
                         single_line_count>>
       \/ Raise

\* the second half: write the annotation file of the line
WriteGt ==
    /\ pc = "write"
    /\ \/ /\ gt_txt' = Put(gt_txt, NewGt(Record[1], line_num),
                           GtContent(lines[line_num]))
          /\ total_split' = total_split + 1
          /\ nwritten' = SetAt(nwritten, idx, nwritten[idx] + 1)
          /\ line_num' = line_num + 1
          /\ pc' = AfterLine(line_num, line_count)
          /\ UNCHANGED <<dir_exists, gt_img, backup_exists, backup_txt, backup_img,
                         bandvars, pending, multiline_files, total_files, idx,
                         img_file, img, errors, announced, single_line_count,
                         orig_txt, orig_img, prior_txt, prior_img, src_file,
                         outcome, movedBy, attempted>>
       \/ Raise

\* shutil.move(str(img_file), str(backup_dir / img_file.name)): os.rename, or
\* copy and unlink; both replace a file that is already at the destination
MoveImg ==
    /\ pc = "move_img"
    /\ \/ /\ img_file \in DOMAIN gt_img
          /\ backup_img' = Put(backup_img, img_file, gt_img[img_file])
          /\ gt_img' = Del(gt_img, img_file)
          /\ movedBy' = SetAt(movedBy, idx, movedBy[idx] \cup {img_file})
          /\ pc' = "move_gt"
          /\ UNCHANGED <<dir_exists, gt_txt, backup_exists, backup_txt, bandvars,
                         pending, multiline_files, total_files, total_split, idx,
                         img_file, img, line_num, errors, announced,
                         single_line_count, orig_txt, orig_img, prior_txt,
                         prior_img, src_file, outcome, nwritten, attempted>>
       \/ Raise

\* shutil.move(str(gt_file), str(backup_dir / gt_file.name)), and the end of
\* the try block
MoveGt ==
    /\ pc = "move_gt"
    /\ \/ /\ GtFile(Record[1]) \in DOMAIN gt_txt
          /\ backup_txt' = Put(backup_txt, GtFile(Record[1]), gt_txt[GtFile(Record[1])])
          /\ gt_txt' = Del(gt_txt, GtFile(Record[1]))
          /\ movedBy' = SetAt(movedBy, idx, movedBy[idx] \cup {GtFile(Record[1])})
          /\ outcome' = SetAt(outcome, idx, "split")
          /\ idx' = idx + 1
          /\ pc' = "find"
          /\ UNCHANGED <<dir_exists, gt_img, backup_exists, backup_img, bandvars,
                         pending, multiline_files, total_files, total_split,
                         img_file, img, line_num, errors, announced,
                         single_line_count, orig_txt, orig_img, prior_txt,
                         prior_img, src_file, nwritten, attempted>>
       \/ Raise

\* the summary after the split loop
Summary ==
    /\ pc = "find"
    /\ idx > Len(multiline_files)
    /\ announced' = Len(multiline_files)
    /\ single_line_count' = Cardinality(GlobGt(gt_txt))
    /\ pc' = "done"
    /\ UNCHANGED <<fsvars, histvars, bandvars, pending, multiline_files,
                   total_files, total_split, idx, img_file, img, line_num, errors>>

Next ==
    \/ CheckDir
    \/ \E f \in pending : ScanFile(f)
    \/ EndScan
    \/ Locate
    \/ OpenImage
    \/ CropSave
    \/ WriteGt
    \/ MoveImg
    \/ MoveGt
    \/ Summary

Spec == Init /\ [][Next]_vars

----------------------------------------------------------------------------
(* The band geometry on its own: every height and line count within bounds *)

InitBands ==
    /\ bH \in 0..MaxH
    /\ bN \in 2..MaxN
    /\ bands = << >>
    /\ dir_exists = FALSE
    /\ gt_txt = Empty
    /\ gt_img = Empty
    /\ backup_exists = FALSE
    /\ backup_txt = Empty
    /\ backup_img = Empty
    /\ orig_txt = Empty
    /\ orig_img = Empty
    /\ prior_txt = Empty
    /\ prior_img = Empty
    /\ InitProgram

\* the crop region of the next line of an image of height bH with bN lines
BandStep ==
    /\ Len(bands) < bN
    /\ bands' = Append(bands,
                   <<YStart(Len(bands) + 1, LineHeight(bH, bN)),
                     YEnd(Len(bands) + 1, LineHeight(bH, bN), bN, bH)>>)
    /\ UNCHANGED <<bH, bN, fsvars, progvars, histvars>>

NextBands == BandStep

SpecBands == InitBands /\ [][NextBands]_vars

----------------------------------------------------------------------------
(* Properties *)

Records == 1..Len(multiline_files)

\* the state right after the try block of record idx - 1 ended without an
\* exception, before the loop goes on
JustSplit == pc = "find" /\ idx > 1 /\ outcome[idx - 1] = "split"

\* the state right after the handler of record idx - 1
JustFailed == pc = "find" /\ idx > 1 /\ outcome[idx - 1] = "failed"

\* C1: for every height bH >= 0 and line count bN >= 2 the crop bands are
\* contiguous and exhaustive: band 1 starts at 0, each band starts where the
\* previous one ends, the last band ends at bH, and the bands cover the rows
\* 0 .. bH - 1 without overlap and without gap.
C1_BandsContiguous ==
    /\ \A i \in 1..Len(bands) :
          /\ bands[i][1] = (IF i = 1 THEN 0 ELSE bands[i - 1][2])
          /\ bands[i][1] <= bands[i][2]
    /\ Len(bands) = bN =>
          /\ bands[bN][2] = bH
          /\ \A y \in 0..(bH - 1) :
                Cardinality({i \in 1..bN : bands[i][1] <= y /\ y < bands[i][2]}) = 1
          /\ \A i \in 1..bN : \A y \in bands[i][1]..(bands[i][2] - 1) : y \in 0..(bH - 1)

C1_Witness == Len(bands) = bN /\ bN >= 3 /\ bH > bN /\ bH % bN # 0

LineSuffix == <<"_line001", "_line002", "_line003", "_line004">>

\* C2: when a record has been split without error, exactly N output pairs
\* have been written, named base_line001 .. base_lineN; the i-th image is
\* the i-th band of the original image (rows (i-1)*(H div N) up to i*(H div N),
\* up to H for the last) and the i-th annotation file holds the i-th stripped
\* non-empty line of the scanned annotation file followed by one newline.
C2_OutputPairs ==
    JustSplit =>
        LET r    == idx - 1
            base == multiline_files[r][1]
            L    == ReadLines(orig_txt[src_file[r]])
            N    == Len(L)
            orig == backup_img[img_file]
            H    == orig.bot - orig.top
        IN  /\ nwritten[r] = N
            /\ multiline_files[r][2] = L
            /\ \A i \in 1..N :
                  /\ (base \o LineSuffix[i] \o ".png") \in DOMAIN gt_img
                  /\ gt_img[base \o LineSuffix[i] \o ".png"] =
                        [id  |-> orig.id,
                         top |-> orig.top + (i - 1) * (H \div N),
                         bot |-> orig.top + (IF i < N THEN i * (H \div N) ELSE H)]
                  /\ (base \o LineSuffix[i] \o ".gt.txt") \in DOMAIN gt_txt
                  /\ gt_txt[base \o LineSuffix[i] \o ".gt.txt"] = L[i] \o "\n"
                  /\ L[i] # "" /\ L[i] = Strip(L[i])

C2_Witness ==
    /\ JustSplit
    /\ Len(multiline_files[idx - 1][2]) = 3
    /\ orig_txt[src_file[idx - 1]] = "x \ny\nz\n"
    /\ Height(backup_img[img_file]) = 5

\* C3: after a successful split of a record the original image file and
\* base_name.gt.txt are no longer in the working directory and are in the
\* backup directory under their names with the content they had before the run.
C3_OriginalsInBackup ==
    JustSplit =>
        LET g == GtFile(multiline_files[idx - 1][1])
        IN  /\ img_file \notin DOMAIN gt_img
            /\ g \notin DOMAIN gt_txt
            /\ img_file \in DOMAIN backup_img
            /\ g \in DOMAIN backup_txt
            /\ img_file \in DOMAIN orig_img => backup_img[img_file] = orig_img[img_file]
            /\ g \in DOMAIN orig_txt => backup_txt[g] = orig_txt[g]

\* C4: an annotation file with at most one stripped non-empty line is not in
\* the multi-line set and is, throughout the run, in the working directory
\* with the content it had before the run.
C4_SingleLineUntouched ==
    \A f \in DOMAIN orig_txt :
        (Decodable(orig_txt[f]) /\ Len(ReadLines(orig_txt[f])) <= 1) =>
            /\ f \in DOMAIN gt_txt
            /\ gt_txt[f] = orig_txt[f]
            /\ \A r \in 1..Len(src_file) : src_file[r] # f

\* C5: a step that finds no image file for the current record changes no
\* file of the working directory or of the backup, reports one error and
\* goes on to the head of the loop for the next record; a skipped record has
\* no output written and nothing moved, and at the summary no record is
\* left unprocessed.
C5_MissingImageSkips ==
    /\ [][(/\ pc = "find"
           /\ idx <= Len(multiline_files)
           /\ \A e \in 1..Len(Extensions) :
                 (multiline_files[idx][1] \o Extensions[e]) \notin DOMAIN gt_img)
          => (/\ fsvars' = fsvars
              /\ errors' = errors + 1
              /\ total_split' = total_split
              /\ outcome'[idx] = "skipped"
              /\ pc' = "find"
              /\ idx' = idx + 1)]_vars
    /\ [](\A r \in Records :
             outcome[r] = "skipped" => (nwritten[r] = 0 /\ movedBy[r] = {}))
    /\ [](pc = "done" => \A r \in Records : outcome[r] # "pending")

C5_Witness ==
    /\ pc = "done"
    /\ \E r \in Records :
          /\ r < Len(multiline_files)
          /\ outcome[r] = "skipped"
          /\ src_file[r] \in DOMAIN gt_txt
          /\ outcome[r + 1] = "split"

\* C6: a file that was in the backup directory before the run keeps its
\* content (a move onto it is refused, or leaves its content in place).
C6_BackupNotOverwritten ==
    /\ \A f \in DOMAIN prior_txt : f \in DOMAIN backup_txt /\ backup_txt[f] = prior_txt[f]
    /\ \A f \in DOMAIN prior_img : f \in DOMAIN backup_img /\ backup_img[f] = prior_img[f]

\* C7: once the scan has met an annotation file that cannot be decoded, an
\* error has been reported for it and the run has not been ended by the
\* exception.
C7_ScanErrorNonFatal ==
    (/\ pc \notin {"start", "exit1"}
     /\ \E f \in GlobGt(orig_txt) \ pending : ~Decodable(orig_txt[f]))
        => (pc # "uncaught" /\ errors >= 1)

\* C8: an exception in the processing of a record is caught: it never ends
\* the run, the records are attempted once each in list order, the loop can
\* always go on, and at the summary every record has been attempted.
C8_FailureIsPerRecord ==
    /\ (\E r \in Records : outcome[r] = "failed") => pc # "uncaught"
    /\ attempted = [i \in 1..Len(attempted) |-> i]
    /\ pc = "find" => Len(attempted) = idx - 1
    /\ pc \in {"open", "crop", "write", "move_img", "move_gt"} =>
          (Len(attempted) = idx /\ outcome[idx] = "pending")
    /\ pc \in {"find", "open", "crop", "write", "move_img", "move_gt"} => ENABLED Next
    /\ pc = "done" =>
          /\ Len(attempted) = Len(multiline_files)
          /\ \A r \in Records : outcome[r] # "pending"

C8_Witness ==
    /\ pc = "done"
    /\ Len(multiline_files) = 2
    /\ outcome[1] = "failed"
    /\ nwritten[1] = 1
    /\ outcome[2] = "split"

C10_SummaryCountsSplit ==
    pc = "done" =>
        announced = Cardinality({r \in Records : outcome[r] = "split"})

====
